---- MODULE Spec2Model ----
(***************************************************************************)
(* The album HTTP server: the request router and handlers (Server), the    *)
(* in-memory store (MemoryDatabase) behind a sync.RWMutex, and the JSON    *)
(* envelope the handlers answer with.  One worker models one goroutine of  *)
(* the HTTP listener serving one request at a time.                        *)
(***************************************************************************)
EXTENDS Integers, Sequences, FiniteSets, TLC

\* Number of goroutines serving requests at once.
NumWorkers == 2

Workers == 1..NumWorkers

(***************************************************************************)
(* Strings whose bytes matter (ids, URL paths) are sequences of one-byte   *)
(* strings; Byte gives each its value, for Go's string <.                  *)
(***************************************************************************)
Byte ==
    ("/" :> 47) @@ ("1" :> 49) @@ ("2" :> 50) @@ ("a" :> 97) @@ ("b" :> 98) @@
    ("l" :> 108) @@ ("m" :> 109) @@ ("s" :> 115) @@ ("u" :> 117)

\* Go's s < t on strings: bytewise lexicographic order.
StrLess(s, t) ==
    \/ /\ Len(s) < Len(t)
       /\ \A i \in 1..Len(s) : s[i] = t[i]
    \/ \E i \in 1..Len(s) :
          /\ i <= Len(t)
          /\ \A j \in 1..(i - 1) : s[j] = t[j]
          /\ Byte[s[i]] < Byte[t[i]]

IdEmpty == <<>>
IdA     == <<"a">>
IdA1    == <<"a", "1">>
IdA2    == <<"a", "2">>
IdB     == <<"b">>
IdASlashB == <<"a", "/", "b">>

\* The ids a request may carry.
Ids == {IdEmpty, IdA, IdA1, IdA2, IdB, IdASlashB}

PathAlbums == <<"/", "a", "l", "b", "u", "m", "s">>

(***************************************************************************)
(* Album (model.go) and its JSON form.                                     *)
(***************************************************************************)
Album(id, title, artist, price) ==
    [ID |-> id, Title |-> title, Artist |-> artist, Price |-> price]

ZeroAlbum == Album(<<>>, "", "", 0)

\* main.go's two test albums.
SeedA1 == Album(IdA1, "9th Symphony", "Beethoven", 795)
SeedA2 == Album(IdA2, "Hey Jude", "The Beatles", 2000)

\* json.Unmarshal of a JSON object into a zero Album: a key that is absent
\* leaves the field at its zero value.
UnmarshalAlbum(obj) ==
    [ID     |-> IF "id" \in DOMAIN obj THEN obj["id"] ELSE <<>>,
     Title  |-> IF "title" \in DOMAIN obj THEN obj["title"] ELSE "",
     Artist |-> IF "artist" \in DOMAIN obj THEN obj["artist"] ELSE "",
     Price  |-> IF "price" \in DOMAIN obj THEN obj["price"] ELSE 0]

\* The keys json.Marshal writes for an Album: price has omitempty.
MarshalAlbumKeys(a) ==
    {"id", "title", "artist"} \cup (IF a.Price # 0 THEN {"price"} ELSE {})

\* json.Marshal of an Album.
MarshalAlbum(a) ==
    [k \in MarshalAlbumKeys(a) |->
        CASE k = "id" -> a.ID
          [] k = "title" -> a.Title
          [] k = "artist" -> a.Artist
          [] k = "price" -> a.Price]

\* json.Marshal of a []Album.
MarshalAlbums(s) == [i \in 1..Len(s) |-> MarshalAlbum(s[i])]

(***************************************************************************)
(* net/http status codes and errors.go.                                    *)
(***************************************************************************)
StatusOK == 200
StatusCreated == 201
StatusBadRequest == 400
StatusNotFound == 404
StatusMethodNotAllowed == 405
StatusConflict == 409
StatusInternalServerError == 500

ErrNil == "nil"
ErrDoesNotExist == "does not exist"
ErrAlreadyExists == "already exists"

ErrorAlreadyExists == "already-exists"
ErrorDatabase == "database"
ErrorInternal == "internal"
ErrorMalformedJSON == "malformed-json"
ErrorMethodNotAllowed == "method-not-allowed"
ErrorNotFound == "not-found"
ErrorValidation == "validation"

(***************************************************************************)
(* Writing a response.  A Go value handed to writeJSON as `any` is tagged  *)
(* with its type; the values of a data map are a validationIssue           *)
(* [Error, Message], a string [String], or a value encoding/json cannot    *)
(* encode, such as a channel [Chan].                                       *)
(***************************************************************************)
GoAlbum(a) == [type |-> "Album", val |-> a]
GoAlbums(s) == [type |-> "[]Album", val |-> s]
GoResponse(status, error, data) ==
    [type |-> "response", val |-> [Status |-> status, Error |-> error, Data |-> data]]

GoString(s) == [String |-> s]
GoChan == [Chan |-> TRUE]

\* A nil map[string]any.
NilData == <<>>

\* Whether encoding/json can encode a value of a data map.
Marshalable(x) == "Chan" \notin DOMAIN x

\* json.Marshal of a value of a data map: validationIssue's message has
\* omitempty.
MarshalDataValue(x) ==
    IF "String" \in DOMAIN x
    THEN x.String
    ELSE [k \in {"error"} \cup (IF x.Message # "" THEN {"message"} ELSE {}) |->
             IF k = "error" THEN x.Error ELSE x.Message]

\* json.Marshal of jsonError's response struct: data has omitempty, which
\* leaves out a nil or empty map.
MarshalResponse(r) ==
    [k \in {"status", "error"} \cup (IF DOMAIN r.Data # {} THEN {"data"} ELSE {}) |->
        CASE k = "status" -> r.Status
          [] k = "error" -> r.Error
          [] k = "data" -> [f \in DOMAIN r.Data |-> MarshalDataValue(r.Data[f])]]

\* json.MarshalIndent(v, "", "    "): the error and the JSON value written.
MarshalIndent(v) ==
    CASE v.type = "Album" -> [err |-> FALSE, b |-> MarshalAlbum(v.val)]
      [] v.type = "[]Album" -> [err |-> FALSE, b |-> MarshalAlbums(v.val)]
      [] v.type = "response" ->
            IF \A f \in DOMAIN v.val.Data : Marshalable(v.val.Data[f])
            THEN [err |-> FALSE, b |-> MarshalResponse(v.val)]
            ELSE [err |-> TRUE, b |-> <<>>]

\* A fresh http.ResponseWriter: no header set ("" is unset), nothing written.
NewResponseWriter ==
    [header |-> [h \in {"Allow", "Content-Type"} |-> ""], status |-> 0, body |-> <<>>]

\* w.Header().Set(key, value)
HeaderSet(w, key, value) == [w EXCEPT !.header[key] = value]

\* http.Error(w, text, code): a plain-text answer; body is the JSON value
\* the text reads as.
HttpError(w, body, code) ==
    [HeaderSet(w, "Content-Type", "text/plain; charset=utf-8")
        EXCEPT !.status = code, !.body = body]

\* Server.writeJSON
writeJSON(w, status, v) ==
    LET w1 == HeaderSet(w, "Content-Type", "application/json; charset=utf-8")
        m == MarshalIndent(v)
    IN  IF m.err
        THEN HttpError(w1, [error |-> ErrorInternal], StatusInternalServerError)
        ELSE [w1 EXCEPT !.status = status, !.body = m.b]

\* Server.jsonError
jsonError(w, status, error, data) ==
    writeJSON(w, status, GoResponse(status, error, data))

(***************************************************************************)
(* Reading a request.  A body is what io.ReadAll gives: a read error, or   *)
(* bytes that are a JSON object (obj) or not (text).                       *)
(***************************************************************************)
ReadErrBody == [kind |-> "readerr", text |-> "", obj |-> <<>>]
TextBody(t) == [kind |-> "text", text |-> t, obj |-> <<>>]
JsonBody(o) == [kind |-> "json", text |-> "", obj |-> o]

\* json.Unmarshal(b, &album): the error text ("" for none) and the album.
JsonUnmarshal(body) ==
    IF body.kind = "json"
    THEN [err |-> "", album |-> UnmarshalAlbum(body.obj)]
    ELSE [err |-> IF body.text = ""
                  THEN "unexpected end of JSON input"
                  ELSE "invalid character 'o' in literal null (expecting 'u')",
          album |-> ZeroAlbum]

\* Server.readJSON: ok, the album read, and the response written on failure.
readJSON(w, body) ==
    IF body.kind = "readerr"
    THEN [ok |-> FALSE, album |-> ZeroAlbum,
          w |-> jsonError(w, StatusInternalServerError, ErrorInternal, NilData)]
    ELSE LET u == JsonUnmarshal(body)
         IN  IF u.err # ""
             THEN [ok |-> FALSE, album |-> ZeroAlbum,
                   w |-> jsonError(w, StatusBadRequest, ErrorMalformedJSON,
                                   [f \in {"message"} |-> GoString(u.err)])]
             ELSE [ok |-> TRUE, album |-> u.album, w |-> w]

(***************************************************************************)
(* Routing (Server.ServeHTTP) and validation (Server.addAlbum).            *)
(***************************************************************************)
\* Mutant: the pattern ^/albums/(.+)$, whose group also takes slashes.
ReAlbumsID_anySuffix(path) ==
    LET n == Len(PathAlbums) + 1
    IN  IF /\ Len(path) > n
           /\ SubSeq(path, 1, n) = PathAlbums \o <<"/">>
        THEN <<path, SubSeq(path, n + 1, Len(path))>>
        ELSE <<>>

\* reAlbumsID.FindStringSubmatch(path) for ^/albums/([^/]+)$ : the whole
\* match and the group, or nothing.
ReAlbumsID(path) ==
    LET n == Len(PathAlbums) + 1
    IN  IF /\ Len(path) > n
           /\ SubSeq(path, 1, n) = PathAlbums \o <<"/">>
           /\ \A i \in (n + 1)..Len(path) : path[i] # "/"
        THEN <<path, SubSeq(path, n + 1, Len(path))>>
        ELSE <<>>

\* match(path, reAlbumsID, &id): whether it matched, and id afterwards.
match(path) ==
    LET matches == ReAlbumsID(path)
    IN  IF Len(matches) <= 0
        THEN [ok |-> FALSE, id |-> <<>>]
        ELSE [ok |-> TRUE, id |-> matches[2]]

\* The branch of ServeHTTP's switch a request takes.
Route(method, path) ==
    IF path = PathAlbums
    THEN CASE method = "GET" -> "getAlbums"
           [] method = "POST" -> "addAlbum"
           [] OTHER -> "albumsNotAllowed"
    ELSE IF match(path).ok
         THEN CASE method = "GET" -> "getAlbumByID"
                [] OTHER -> "albumsIDNotAllowed"
         ELSE "notFound"

\* The price bound of addAlbum's range check.
PriceLimit == 100000

\* Mutant: > for >=.
PriceOutOfRange_offByOne(price) == price < 0 \/ price > PriceLimit

PriceOutOfRange(price) == price < 0 \/ price >= PriceLimit

\* Mutant: validation that stops at the first failing check.
IssueFields_failFast(album) ==
    IF album.ID = <<>> THEN {"id"}
    ELSE IF album.Title = "" THEN {"title"}
    ELSE IF album.Artist = "" THEN {"artist"}
    ELSE IF PriceOutOfRange(album.Price) THEN {"price"}
    ELSE {}

\* The fields addAlbum's checks flag.
IssueFields(album) ==
    (IF album.ID = <<>> THEN {"id"} ELSE {}) \cup
    (IF album.Title = "" THEN {"title"} ELSE {}) \cup
    (IF album.Artist = "" THEN {"artist"} ELSE {}) \cup
    (IF PriceOutOfRange(album.Price) THEN {"price"} ELSE {})

\* addAlbum's map of validation issues.
Issues(album) ==
    [f \in IssueFields(album) |->
        IF f = "price"
        THEN [Error |-> "out-of-range", Message |-> "price must be between 0 and $1000"]
        ELSE [Error |-> "required", Message |-> ""]]

(***************************************************************************)
(* MemoryDatabase: the albums map behind a sync.RWMutex.                   *)
(***************************************************************************)
\* Mutant: the comparison the other way round.
AlbumLess_reversed(x, y) == StrLess(y.ID, x.ID)

\* The less function GetAlbums hands to sort.Slice.
AlbumLess(x, y) == StrLess(x.ID, y.ID)

Swap(s, i, j) == [s EXCEPT ![i] = s[j], ![j] = s[i]]

\* sort.Slice on a short slice is an insertion sort: element j moves left
\* while it is less than its left neighbour.
RECURSIVE SinkLeft(_, _)
SinkLeft(s, j) ==
    IF j > 1 /\ AlbumLess(s[j], s[j - 1])
    THEN SinkLeft(Swap(s, j, j - 1), j - 1)
    ELSE s

RECURSIVE InsertionSort(_, _)
InsertionSort(s, i) ==
    IF i > Len(s) THEN s ELSE InsertionSort(SinkLeft(s, i), i + 1)

SortSlice(s) == InsertionSort(s, 2)

\* Every sequence that holds each element of S once.
RECURSIVE Orderings(_)
Orderings(S) ==
    IF S = {}
    THEN {<<>>}
    ELSE UNION {{<<x>> \o p : p \in Orderings(S \ {x})} : x \in S}

\* The orders in which `for _, album := range d.albums` may visit the map:
\* Go leaves the iteration order of a map unspecified.
RangeOrders(m) == {[i \in 1..Len(p) |-> m[p[i]]] : p \in Orderings(DOMAIN m)}

\* The map after main.go has added its two test albums.
SeededAlbums == (IdA1 :> SeedA1) @@ (IdA2 :> SeedA2)

VARIABLES
    albums,     \* MemoryDatabase.albums: id -> Album
    lock,       \* MemoryDatabase.lock: readers holding it, and whether a writer does
    pc,         \* per worker: where its goroutine is
    req,        \* per worker: the request being served
    local,      \* per worker: the handler running, its album and id, the store
                \* call's results, and (history) whether the album's id was
                \* stored when the request arrived
    resp,       \* per worker: the response written
    added,      \* history: per id, the albums AddAlbum has returned nil for
    abs,        \* history: the store of the sequential specification
    lin         \* per worker: the result the sequential specification gives its call

vars == <<albums, lock, pc, req, local, resp, added, abs, lin>>

NoReq == [method |-> "", path |-> <<>>, body |-> TextBody("")]
NoLocal ==
    [handler |-> "", album |-> ZeroAlbum, id |-> <<>>, list |-> <<>>, err |-> "",
     idStored |-> FALSE]
NoLin == [album |-> ZeroAlbum, list |-> <<>>, err |-> ""]

Init ==
    /\ albums = SeededAlbums
    /\ lock = [readers |-> 0, writer |-> FALSE]
    /\ pc = [w \in Workers |-> "idle"]
    /\ req = [w \in Workers |-> NoReq]
    /\ local = [w \in Workers |-> NoLocal]
    /\ resp = [w \in Workers |-> NewResponseWriter]
    /\ added = [i \in Ids |-> IF i \in DOMAIN SeededAlbums THEN <<SeededAlbums[i]>> ELSE <<>>]
    /\ abs = SeededAlbums
    /\ lin = [w \in Workers |-> NoLin]

\* sync.RWMutex.  A Lock that waits also holds back later RLocks; that only
\* removes schedules, so the lock here allows every schedule the mutex does.
RLock ==
    /\ ~lock.writer
    /\ lock' = [lock EXCEPT !.readers = @ + 1]

RUnlock == lock' = [lock EXCEPT !.readers = @ - 1]

Lock ==
    /\ ~lock.writer
    /\ lock.readers = 0
    /\ lock' = [lock EXCEPT !.writer = TRUE]

Unlock == lock' = [lock EXCEPT !.writer = FALSE]

\* The sequential specification of the store, which the history variables
\* abs and lin follow at each call's linearization point.
SeqListing(s) ==
    CHOOSE l \in RangeOrders(s) : \A i \in 1..(Len(l) - 1) : StrLess(l[i].ID, l[i + 1].ID)

SeqGetAlbums(s) == [album |-> ZeroAlbum, list |-> SeqListing(s), err |-> ErrNil]

SeqGetAlbumByID(s, id) ==
    IF id \in DOMAIN s
    THEN [album |-> s[id], list |-> <<>>, err |-> ErrNil]
    ELSE [album |-> ZeroAlbum, list |-> <<>>, err |-> ErrDoesNotExist]

SeqAddAlbum(s, a) ==
    IF a.ID \in DOMAIN s
    THEN [album |-> ZeroAlbum, list |-> <<>>, err |-> ErrAlreadyExists]
    ELSE [album |-> ZeroAlbum, list |-> <<>>, err |-> ErrNil]

SeqAddAlbumStore(s, a) == IF a.ID \in DOMAIN s THEN s ELSE (a.ID :> a) @@ s

(***************************************************************************)
(* The requests the environment sends.                                     *)
(***************************************************************************)
Req(method, path, body) == [method |-> method, path |-> path, body |-> body]

\* "/albums/" followed by id
AlbumPath(id) == PathAlbums \o <<"/">> \o id

Methods == {"GET", "POST", "DELETE"}

Paths ==
    {PathAlbums, AlbumPath(<<>>), AlbumPath(IdA), AlbumPath(IdA1), AlbumPath(IdB),
     AlbumPath(IdASlashB), AlbumPath(IdA1) \o <<"/">>, <<"/">>,
     <<"/", "a", "l", "b", "u", "m">>, PathAlbums \o <<"s">>,
     <<"/", "a">> \o AlbumPath(IdA1)}

Titles == {"", "T"}
Artists == {"", "R"}
Prices == {-1, 0, 795, PriceLimit - 1, PriceLimit}

\* JSON objects of the Album shape: every key present, price absent, and {}.
JsonObjects ==
    LET full == [id : Ids \ {IdA2}, title : Titles, artist : Artists, price : Prices]
    IN  full \cup {[k \in {"id", "title", "artist"} |-> o[k]] : o \in full} \cup {<<>>}

Bodies ==
    {ReadErrBody, TextBody(""), TextBody("not valid json")} \cup
    {JsonBody(o) : o \in JsonObjects}

\* Every request of the sequential specification.
Requests ==
    {Req(m, p, TextBody("")) : m \in Methods, p \in Paths} \cup
    {Req("POST", PathAlbums, b) : b \in Bodies}

\* The requests of the concurrent specification: a subset of Requests.
ConcRequests ==
    {Req("GET", PathAlbums, TextBody("")),
     Req("GET", AlbumPath(IdB), TextBody("")),
     Req("DELETE", PathAlbums, TextBody("")),
     Req("DELETE", AlbumPath(IdB), TextBody("")),
     Req("GET", AlbumPath(IdASlashB), TextBody("")),
     Req("POST", PathAlbums, TextBody("not valid json")),
     Req("POST", PathAlbums, JsonBody([id |-> IdB, title |-> "", artist |-> "R", price |-> 0])),
     Req("POST", PathAlbums, JsonBody([id |-> IdB, title |-> "T", artist |-> "R", price |-> 795])),
     Req("POST", PathAlbums, JsonBody([id |-> IdB, title |-> "T", artist |-> "R"])),
     Req("POST", PathAlbums, JsonBody([id |-> IdA, title |-> "T", artist |-> "R", price |-> 795])),
     Req("POST", PathAlbums, JsonBody([id |-> IdA1, title |-> "T", artist |-> "R", price |-> 795]))}

(***************************************************************************)
(* The handlers' answers once the store call has returned.                 *)
(***************************************************************************)
\* Server.getAlbums after s.db.GetAlbums()
getAlbumsRespond(w, list, err) ==
    IF err # ErrNil
    THEN jsonError(w, StatusInternalServerError, ErrorDatabase, NilData)
    ELSE writeJSON(w, StatusOK, GoAlbums(list))

\* Server.getAlbumByID after s.db.GetAlbumByID(id)
getAlbumByIDRespond(w, album, err) ==
    IF err = ErrDoesNotExist
    THEN jsonError(w, StatusNotFound, ErrorNotFound, NilData)
    ELSE IF err # ErrNil
         THEN jsonError(w, StatusInternalServerError, ErrorDatabase, NilData)
         ELSE writeJSON(w, StatusOK, GoAlbum(album))

\* Server.addAlbum after s.db.AddAlbum(album)
addAlbumRespond(w, album, err) ==
    IF err = ErrAlreadyExists
    THEN jsonError(w, StatusConflict, ErrorAlreadyExists, NilData)
    ELSE IF err # ErrNil
         THEN jsonError(w, StatusInternalServerError, ErrorDatabase, NilData)
         ELSE writeJSON(w, StatusCreated, GoAlbum(album))

(***************************************************************************)
(* Actions.  Worker w serves request r from ServeHTTP to the first call of *)
(* the store in one step (it touches nothing shared), then takes the store *)
(* call a step at a time.                                                  *)
(***************************************************************************)
\* The handler has written response rw without calling the store.
Answer(w, r, rw, loc) ==
    /\ pc' = [pc EXCEPT ![w] = "done"]
    /\ req' = [req EXCEPT ![w] = r]
    /\ resp' = [resp EXCEPT ![w] = rw]
    /\ local' = [local EXCEPT ![w] = loc]
    /\ UNCHANGED <<albums, lock, added, abs, lin>>

\* The handler calls the store: the worker is inside the call, at its lock.
CallStore(w, r, at, loc) ==
    /\ pc' = [pc EXCEPT ![w] = at]
    /\ req' = [req EXCEPT ![w] = r]
    /\ resp' = [resp EXCEPT ![w] = NewResponseWriter]
    /\ local' = [local EXCEPT ![w] = loc]
    /\ UNCHANGED <<albums, lock, added, abs, lin>>

\* ServeHTTP: GET /albums
ServeGetAlbums(w, R) ==
    /\ pc[w] = "idle"
    /\ \E r \in R :
        /\ Route(r.method, r.path) = "getAlbums"
        /\ CallStore(w, r, "GetAlbums.RLock", [NoLocal EXCEPT !.handler = "getAlbums"])

\* ServeHTTP: POST /albums, readJSON fails
ServeAddAlbumUnreadable(w, R) ==
    /\ pc[w] = "idle"
    /\ \E r \in R :
        /\ Route(r.method, r.path) = "addAlbum"
        /\ LET rd == readJSON(NewResponseWriter, r.body)
           IN  /\ ~rd.ok
               /\ Answer(w, r, rd.w, [NoLocal EXCEPT !.handler = "addAlbum"])

\* ServeHTTP: POST /albums, the album read has validation issues
ServeAddAlbumInvalid(w, R) ==
    /\ pc[w] = "idle"
    /\ \E r \in R :
        /\ Route(r.method, r.path) = "addAlbum"
        /\ LET rd == readJSON(NewResponseWriter, r.body)
               issues == Issues(rd.album)
           IN  /\ rd.ok
               /\ Cardinality(DOMAIN issues) > 0
               /\ Answer(w, r,
                         jsonError(rd.w, StatusBadRequest, ErrorValidation, issues),
                         [NoLocal EXCEPT !.handler = "addAlbum", !.album = rd.album,
                                         !.idStored = rd.album.ID \in DOMAIN albums])

\* ServeHTTP: POST /albums, the album read is valid
ServeAddAlbumValid(w, R) ==
    /\ pc[w] = "idle"
    /\ \E r \in R :
        /\ Route(r.method, r.path) = "addAlbum"
        /\ LET rd == readJSON(NewResponseWriter, r.body)
               issues == Issues(rd.album)
           IN  /\ rd.ok
               /\ ~(Cardinality(DOMAIN issues) > 0)
               /\ CallStore(w, r, "AddAlbum.Lock",
                            [NoLocal EXCEPT !.handler = "addAlbum", !.album = rd.album,
                                            !.idStored = rd.album.ID \in DOMAIN albums])

\* ServeHTTP: /albums with another method
ServeAlbumsNotAllowed(w, R) ==
    /\ pc[w] = "idle"
    /\ \E r \in R :
        /\ Route(r.method, r.path) = "albumsNotAllowed"
        /\ Answer(w, r,
                  jsonError(HeaderSet(NewResponseWriter, "Allow", "GET, POST"),
                            StatusMethodNotAllowed, ErrorMethodNotAllowed, NilData),
                  NoLocal)

\* ServeHTTP: GET /albums/{id}
ServeGetAlbumByID(w, R) ==
    /\ pc[w] = "idle"
    /\ \E r \in R :
        /\ Route(r.method, r.path) = "getAlbumByID"
        /\ CallStore(w, r, "GetAlbumByID.RLock",
                     [NoLocal EXCEPT !.handler = "getAlbumByID", !.id = match(r.path).id])

\* ServeHTTP: /albums/{id} with another method
ServeAlbumsIDNotAllowed(w, R) ==
    /\ pc[w] = "idle"
    /\ \E r \in R :
        /\ Route(r.method, r.path) = "albumsIDNotAllowed"
        /\ Answer(w, r,
                  jsonError(HeaderSet(NewResponseWriter, "Allow", "GET"),
                            StatusMethodNotAllowed, ErrorMethodNotAllowed, NilData),
                  [NoLocal EXCEPT !.id = match(r.path).id])

\* ServeHTTP: any other path
ServeNotFound(w, R) ==
    /\ pc[w] = "idle"
    /\ \E r \in R :
        /\ Route(r.method, r.path) = "notFound"
        /\ Answer(w, r,
                  jsonError(NewResponseWriter, StatusNotFound, ErrorNotFound, NilData),
                  NoLocal)

\* GetAlbums: d.lock.RLock()
GetAlbumsRLock(w) ==
    /\ pc[w] = "GetAlbums.RLock"
    /\ RLock
    /\ pc' = [pc EXCEPT ![w] = "GetAlbums.range"]
    /\ UNCHANGED <<albums, req, local, resp, added, abs, lin>>

\* GetAlbums: copy the map into a slice and sort it
GetAlbumsRange(w) ==
    /\ pc[w] = "GetAlbums.range"
    /\ lin' = [lin EXCEPT ![w] = SeqGetAlbums(abs)]
    /\ pc' = [pc EXCEPT ![w] = "GetAlbums.return"]
    /\ UNCHANGED <<albums, lock, req, resp, added, abs>>
    /\ \E order \in RangeOrders(albums) :
          local' = [local EXCEPT ![w].list = SortSlice(order), ![w].err = ErrNil]

\* GetAlbums returns (the deferred RUnlock runs) and getAlbums answers
GetAlbumsReturn(w) ==
    /\ pc[w] = "GetAlbums.return"
    /\ RUnlock
    /\ resp' = [resp EXCEPT ![w] = getAlbumsRespond(resp[w], local[w].list, local[w].err)]
    /\ pc' = [pc EXCEPT ![w] = "done"]
    /\ UNCHANGED <<albums, req, local, added, abs, lin>>

\* GetAlbumByID: d.lock.RLock()
GetAlbumByIDRLock(w) ==
    /\ pc[w] = "GetAlbumByID.RLock"
    /\ RLock
    /\ pc' = [pc EXCEPT ![w] = "GetAlbumByID.lookup"]
    /\ UNCHANGED <<albums, req, local, resp, added, abs, lin>>

\* Mutant: the lookup returns the zero Album for an id it finds.
GetAlbumByIDLookup_zero(w) ==
    /\ pc[w] = "GetAlbumByID.lookup"
    /\ local' = [local EXCEPT ![w] =
                    IF local[w].id \in DOMAIN albums
                    THEN [@ EXCEPT !.album = ZeroAlbum, !.err = ErrNil]
                    ELSE [@ EXCEPT !.album = ZeroAlbum, !.err = ErrDoesNotExist]]
    /\ lin' = [lin EXCEPT ![w] = SeqGetAlbumByID(abs, local[w].id)]
    /\ pc' = [pc EXCEPT ![w] = "GetAlbumByID.return"]
    /\ UNCHANGED <<albums, lock, req, resp, added, abs>>

\* GetAlbumByID: album, ok := d.albums[id]
GetAlbumByIDLookup(w) ==
    /\ pc[w] = "GetAlbumByID.lookup"
    /\ local' = [local EXCEPT ![w] =
                    IF local[w].id \in DOMAIN albums
                    THEN [@ EXCEPT !.album = albums[local[w].id], !.err = ErrNil]
                    ELSE [@ EXCEPT !.album = ZeroAlbum, !.err = ErrDoesNotExist]]
    /\ lin' = [lin EXCEPT ![w] = SeqGetAlbumByID(abs, local[w].id)]
    /\ pc' = [pc EXCEPT ![w] = "GetAlbumByID.return"]
    /\ UNCHANGED <<albums, lock, req, resp, added, abs>>

\* GetAlbumByID returns (the deferred RUnlock runs) and getAlbumByID answers
GetAlbumByIDReturn(w) ==
    /\ pc[w] = "GetAlbumByID.return"
    /\ RUnlock
    /\ resp' = [resp EXCEPT ![w] =
                   getAlbumByIDRespond(resp[w], local[w].album, local[w].err)]
    /\ pc' = [pc EXCEPT ![w] = "done"]
    /\ UNCHANGED <<albums, req, local, added, abs, lin>>

\* Mutant: AddAlbum takes the read lock.
AddAlbumLock_RLock(w) ==
    /\ pc[w] = "AddAlbum.Lock"
    /\ RLock
    /\ pc' = [pc EXCEPT ![w] = "AddAlbum.check"]
    /\ UNCHANGED <<albums, req, local, resp, added, abs, lin>>

\* AddAlbum: d.lock.Lock()
AddAlbumLock(w) ==
    /\ pc[w] = "AddAlbum.Lock"
    /\ Lock
    /\ pc' = [pc EXCEPT ![w] = "AddAlbum.check"]
    /\ UNCHANGED <<albums, req, local, resp, added, abs, lin>>

\* Mutant: AddAlbum without the existence check.
AddAlbumCheck_overwrite(w) ==
    /\ pc[w] = "AddAlbum.check"
    /\ local' = local
    /\ pc' = [pc EXCEPT ![w] = "AddAlbum.store"]
    /\ lin' = [lin EXCEPT ![w] = SeqAddAlbum(abs, local[w].album)]
    /\ abs' = SeqAddAlbumStore(abs, local[w].album)
    /\ UNCHANGED <<albums, lock, req, resp, added>>

\* Mutant: AddAlbum assigns into the map before it checks for the id.
AddAlbumCheck_storeFirst(w) ==
    /\ pc[w] = "AddAlbum.check"
    /\ IF local[w].album.ID \in DOMAIN albums
       THEN /\ albums' = (local[w].album.ID :> local[w].album) @@ albums
            /\ local' = [local EXCEPT ![w].err = ErrAlreadyExists]
            /\ pc' = [pc EXCEPT ![w] = "AddAlbum.return"]
       ELSE /\ albums' = albums
            /\ local' = local
            /\ pc' = [pc EXCEPT ![w] = "AddAlbum.store"]
    /\ lin' = [lin EXCEPT ![w] = SeqAddAlbum(abs, local[w].album)]
    /\ abs' = SeqAddAlbumStore(abs, local[w].album)
    /\ UNCHANGED <<lock, req, resp, added>>

\* AddAlbum: if _, ok := d.albums[album.ID]; ok { return ErrAlreadyExists }
AddAlbumCheck(w) ==
    /\ pc[w] = "AddAlbum.check"
    /\ IF local[w].album.ID \in DOMAIN albums
       THEN /\ local' = [local EXCEPT ![w].err = ErrAlreadyExists]
            /\ pc' = [pc EXCEPT ![w] = "AddAlbum.return"]
       ELSE /\ local' = local
            /\ pc' = [pc EXCEPT ![w] = "AddAlbum.store"]
    /\ lin' = [lin EXCEPT ![w] = SeqAddAlbum(abs, local[w].album)]
    /\ abs' = SeqAddAlbumStore(abs, local[w].album)
    /\ UNCHANGED <<albums, lock, req, resp, added>>

\* AddAlbum: d.albums[album.ID] = album; return nil
AddAlbumStore(w) ==
    /\ pc[w] = "AddAlbum.store"
    /\ albums' = (local[w].album.ID :> local[w].album) @@ albums
    /\ local' = [local EXCEPT ![w].err = ErrNil]
    /\ pc' = [pc EXCEPT ![w] = "AddAlbum.return"]
    /\ UNCHANGED <<lock, req, resp, added, abs, lin>>

\* AddAlbum returns (the deferred Unlock runs) and addAlbum answers
AddAlbumReturn(w) ==
    /\ pc[w] = "AddAlbum.return"
    /\ Unlock
    /\ added' = IF local[w].err = ErrNil /\ Len(added[local[w].album.ID]) < 2
                THEN [added EXCEPT ![local[w].album.ID] = Append(@, local[w].album)]
                ELSE added
    /\ resp' = [resp EXCEPT ![w] = addAlbumRespond(resp[w], local[w].album, local[w].err)]
    /\ pc' = [pc EXCEPT ![w] = "done"]
    /\ UNCHANGED <<albums, req, local, abs, lin>>

\* The response has gone to the client; the worker takes the next request.
Done(w) ==
    /\ pc[w] = "done"
    /\ pc' = [pc EXCEPT ![w] = "idle"]
    /\ req' = [req EXCEPT ![w] = NoReq]
    /\ local' = [local EXCEPT ![w] = NoLocal]
    /\ resp' = [resp EXCEPT ![w] = NewResponseWriter]
    /\ lin' = [lin EXCEPT ![w] = NoLin]
    /\ UNCHANGED <<albums, lock, added, abs>>

WorkerNext(w, R) ==
    \/ ServeGetAlbums(w, R)
    \/ ServeAddAlbumUnreadable(w, R)
    \/ ServeAddAlbumInvalid(w, R)
    \/ ServeAddAlbumValid(w, R)
    \/ ServeAlbumsNotAllowed(w, R)
    \/ ServeGetAlbumByID(w, R)
    \/ ServeAlbumsIDNotAllowed(w, R)
    \/ ServeNotFound(w, R)
    \/ GetAlbumsRLock(w)
    \/ GetAlbumsRange(w)
    \/ GetAlbumsReturn(w)
    \/ GetAlbumByIDRLock(w)
    \/ GetAlbumByIDLookup(w)
    \/ GetAlbumByIDReturn(w)
    \/ AddAlbumLock(w)
    \/ AddAlbumCheck(w)
    \/ AddAlbumStore(w)
    \/ AddAlbumReturn(w)
    \/ Done(w)

\* The server under load: every worker serves requests concurrently.
Next == \E w \in Workers : WorkerNext(w, ConcRequests)

Spec == Init /\ [][Next]_vars

\* The (status, error) pairs the handlers call jsonError with.
JsonErrorCalls ==
    {<<StatusMethodNotAllowed, ErrorMethodNotAllowed>>, <<StatusNotFound, ErrorNotFound>>,
     <<StatusInternalServerError, ErrorDatabase>>, <<StatusBadRequest, ErrorValidation>>,
     <<StatusConflict, ErrorAlreadyExists>>, <<StatusInternalServerError, ErrorInternal>>,
     <<StatusBadRequest, ErrorMalformedJSON>>}

\* Non-nil data maps: the handlers' (validation issues, a parse error
\* message), and one holding a value encoding/json cannot encode.
DataMaps ==
    {Issues(UnmarshalAlbum(o)) : o \in JsonObjects \ {<<>>}} \cup
    {[f \in {"message"} |-> GoString(JsonUnmarshal(TextBody(t)).err)] :
        t \in {"", "not valid json"}} \cup
    {[f \in {"message"} |-> GoChan]}

\* jsonError as a function of its arguments: called on a writer whose
\* Allow header is unset or set, with any status pair and any data map.
JsonErrorCall(w) ==
    /\ pc[w] = "idle"
    /\ \E c \in JsonErrorCalls, allow \in {"", "GET", "GET, POST"} :
          \/ Answer(w, NoReq,
                    jsonError(HeaderSet(NewResponseWriter, "Allow", allow), c[1], c[2], NilData),
                    NoLocal)
          \/ \E data \in DataMaps :
                Answer(w, NoReq,
                       jsonError(HeaderSet(NewResponseWriter, "Allow", allow), c[1], c[2], data),
                       NoLocal)

\* The server serving one request at a time, over every request.
NextSequential == WorkerNext(1, Requests)

SpecSequential == Init /\ [][NextSequential]_vars

(***************************************************************************)
(* Properties.                                                             *)
(***************************************************************************)
\* The error envelope jsonError writes, as JSON, without data.
Envelope(status, error) == [status |-> status, error |-> error]

IsAddRequest(r) == r.method = "POST" /\ r.path = PathAlbums

\* A worker inside AddAlbum's critical section, between Lock and Unlock.
InWrite(w) == pc[w] \in {"AddAlbum.check", "AddAlbum.store", "AddAlbum.return"}

\* A worker inside a reader's critical section, between RLock and RUnlock.
InRead(w) ==
    pc[w] \in {"GetAlbums.range", "GetAlbums.return",
               "GetAlbumByID.lookup", "GetAlbumByID.return"}

\* C1: GetAlbumByID(id) returns the album of the AddAlbum that succeeded
\* for id, and ErrDoesNotExist exactly when none has; GET /albums/{id}
\* answers 200 with that album, or 404 not-found without data.
C1_GetReturnsAdded ==
    \A w \in Workers :
        /\ pc[w] = "GetAlbumByID.return" =>
              /\ (local[w].err = ErrDoesNotExist) <=> (added[local[w].id] = <<>>)
              /\ local[w].err # ErrDoesNotExist =>
                    /\ local[w].err = ErrNil
                    /\ local[w].album = added[local[w].id][1]
        /\ (pc[w] = "done" /\ local[w].handler = "getAlbumByID") =>
              /\ req[w].path = AlbumPath(local[w].id)
              /\ \/ /\ resp[w].status = StatusOK
                    /\ local[w].err = ErrNil
                    /\ added[local[w].id] # <<>>
                    /\ UnmarshalAlbum(resp[w].body) = added[local[w].id][1]
                 \/ /\ resp[w].status = StatusNotFound
                    /\ local[w].err = ErrDoesNotExist
                    /\ resp[w].body = Envelope(StatusNotFound, ErrorNotFound)

\* A GET has answered 200 with an album that a POST added.
C1_Witness ==
    \E w \in Workers :
        /\ pc[w] = "done"
        /\ req[w] = Req("GET", AlbumPath(IdB), TextBody(""))
        /\ resp[w].status = StatusOK
        /\ resp[w].body["id"] = IdB

\* C2: AddAlbum of an id that is stored returns ErrAlreadyExists (409
\* already-exists), and the record under that id stays the first album.
C2_DuplicateRejected ==
    /\ \A i \in Ids : added[i] # <<>> => (i \in DOMAIN albums /\ albums[i] = added[i][1])
    /\ \A w \in Workers :
        /\ pc[w] = "AddAlbum.return" =>
              (local[w].err = ErrAlreadyExists) <=> (added[local[w].album.ID] # <<>>)
        /\ (pc[w] = "done" /\ local[w].err = ErrAlreadyExists) =>
              /\ resp[w].status = StatusConflict
              /\ resp[w].body = Envelope(StatusConflict, ErrorAlreadyExists)
              /\ Len(added[local[w].album.ID]) = 1
              /\ albums[local[w].album.ID] = added[local[w].album.ID][1]

\* A POST of a stored id with another title has answered 409, and the
\* record is the first one.
C2_Witness ==
    \E w \in Workers :
        /\ pc[w] = "done"
        /\ IsAddRequest(req[w])
        /\ resp[w].status = StatusConflict
        /\ local[w].album.ID = IdA1
        /\ local[w].album # SeedA1
        /\ albums[IdA1] = SeedA1

\* C3: GetAlbums returns exactly the stored records, each once, in strictly
\* ascending order of id; GET /albums answers 200 with them in that order.
C3_ListSorted ==
    \A w \in Workers :
        /\ pc[w] = "GetAlbums.return" =>
              LET l == local[w].list
              IN  /\ Len(l) = Cardinality(DOMAIN albums)
                  /\ {l[i] : i \in 1..Len(l)} = {albums[k] : k \in DOMAIN albums}
                  /\ \A i \in 1..(Len(l) - 1) : StrLess(l[i].ID, l[i + 1].ID)
        /\ (pc[w] = "done" /\ local[w].handler = "getAlbums") =>
              /\ resp[w].status = StatusOK
              /\ Len(resp[w].body) = Len(local[w].list)
              /\ \A i \in 1..Len(resp[w].body) :
                    UnmarshalAlbum(resp[w].body[i]) = local[w].list[i]
              /\ \A i \in 1..(Len(resp[w].body) - 1) :
                    StrLess(resp[w].body[i]["id"], resp[w].body[i + 1]["id"])

\* GetAlbums has returned the two test albums and two added ones.
C3_Witness ==
    \E w \in Workers :
        /\ pc[w] = "GetAlbums.return"
        /\ Len(local[w].list) = 4
        /\ local[w].list[1].ID = IdA
        /\ local[w].list[4].ID = IdB

\* C4: a writer's critical section overlaps no other critical section;
\* every call returns what the sequential store returns at the call's
\* linearization point; and per id one AddAlbum succeeds, whose album is the
\* record stored.
C4_Linearizable ==
    /\ \A w1, w2 \in Workers :
          (w1 # w2 /\ InWrite(w1)) => (~InWrite(w2) /\ ~InRead(w2))
    /\ ~(\E w \in Workers : InWrite(w)) => abs = albums
    /\ \A w \in Workers :
          (pc[w] \in {"GetAlbums.return", "GetAlbumByID.return", "AddAlbum.return"}
              \/ (pc[w] = "done" /\ local[w].err # "")) =>
             /\ local[w].err = lin[w].err
             /\ local[w].handler = "getAlbumByID" => local[w].album = lin[w].album
             /\ local[w].handler = "getAlbums" => local[w].list = lin[w].list
             /\ local[w].handler = "addAlbum" => local[w].err \in {ErrNil, ErrAlreadyExists}
    /\ \A i \in Ids :
          /\ Len(added[i]) <= 1
          /\ added[i] # <<>> => (i \in DOMAIN albums /\ albums[i] = added[i][1])

\* Two requests to add different albums under one id have both been
\* answered: one 201, the other 409, and the record is the first one's.
C4_Witness ==
    \E w1, w2 \in Workers :
        /\ pc[w1] = "done" /\ pc[w2] = "done"
        /\ local[w1].album.ID = IdB /\ local[w2].album.ID = IdB
        /\ local[w1].album # local[w2].album
        /\ resp[w1].status = StatusCreated
        /\ resp[w2].status = StatusConflict
        /\ albums[IdB] = local[w1].album

\* C5: the store holds one record per id, under the record's own id, and a
\* record once stored is never changed or removed.
C5_RecordsImmutable ==
    /\ [](\A k \in DOMAIN albums : albums[k].ID = k)
    /\ [][\A k \in DOMAIN albums : k \in DOMAIN albums' /\ albums'[k] = albums[k]]_vars

\* A request to add another album under a stored id is inside AddAlbum.
C5_Witness ==
    \E w \in Workers :
        /\ pc[w] = "AddAlbum.return"
        /\ local[w].album.ID = IdB
        /\ albums[IdB] # local[w].album

\* C10: the store changes only in the step in which a POST /albums stores
\* its album, and that request is the one answered 201; an AddAlbum returns
\* nil exactly when it stored, and no response is written in a step that
\* changes the store.
C10_Frame ==
    [][/\ albums' # albums =>
            \E w \in Workers :
                /\ pc[w] = "AddAlbum.store"
                /\ IsAddRequest(req[w])
                /\ req[w].body.kind = "json"
                /\ UnmarshalAlbum(req[w].body.obj).ID \notin DOMAIN albums
                /\ albums' = (UnmarshalAlbum(req[w].body.obj).ID :>
                                 UnmarshalAlbum(req[w].body.obj)) @@ albums
                /\ pc'[w] = "AddAlbum.return"
       /\ \A w \in Workers :
            /\ (pc[w] # "AddAlbum.return" /\ pc'[w] = "AddAlbum.return") =>
                  ((local'[w].err = ErrNil) <=> (albums' # albums))
            /\ (pc[w] # "done" /\ pc'[w] = "done") =>
                  /\ albums' = albums
                  /\ (resp'[w].status = StatusCreated) <=>
                        (pc[w] = "AddAlbum.return" /\ local[w].err = ErrNil)
      ]_vars

\* A POST has been answered 409 while the record a 201 stored is in place.
C10_Witness ==
    \E w1, w2 \in Workers :
        /\ pc[w1] = "done" /\ resp[w1].status = StatusConflict
        /\ pc[w2] = "done" /\ resp[w2].status = StatusCreated
        /\ local[w2].album.ID = IdA
        /\ albums[IdA] = local[w2].album

\* The server serving one request at a time, beside direct calls of jsonError.
NextJSONError == WorkerNext(1, Requests) \/ JsonErrorCall(1)

SpecJSONError == Init /\ [][NextJSONError]_vars

\* The path is /albums/{id} with {id} one or more characters, none a slash.
IsIdPath(p) ==
    \E k \in 1..Len(p) :
        LET id == SubSeq(p, Len(p) - k + 1, Len(p))
        IN  /\ p = AlbumPath(id)
            /\ \A i \in 1..Len(id) : id[i] # "/"

PathId(p) == SubSeq(p, Len(PathAlbums) + 2, Len(p))

\* The places of a worker inside each handler.
HandlerPlaces(h) ==
    CASE h = "getAlbums" -> {"GetAlbums.RLock", "GetAlbums.range", "GetAlbums.return", "done"}
      [] h = "getAlbumByID" ->
            {"GetAlbumByID.RLock", "GetAlbumByID.lookup", "GetAlbumByID.return", "done"}
      [] h = "addAlbum" ->
            {"AddAlbum.Lock", "AddAlbum.check", "AddAlbum.store", "AddAlbum.return", "done"}
      [] OTHER -> {"done"}

\* C6: a request is classified by (path, method) into one row of the routing
\* table: /albums GET, POST, other (405, Allow: GET, POST); /albums/{id} GET,
\* other (405, Allow: GET); any other path 404 not-found.
C6_Routing ==
    \A w \in Workers :
        pc[w] # "idle" =>
            LET r == req[w]
                h == local[w].handler
                refused(status, error, allow) ==
                    /\ h = ""
                    /\ pc[w] = "done"
                    /\ local[w].err = ""
                    /\ resp[w].status = status
                    /\ resp[w].body = Envelope(status, error)
                    /\ resp[w].header["Allow"] = allow
            IN  /\ pc[w] \in HandlerPlaces(h)
                /\ IF r.path = PathAlbums
                   THEN CASE r.method = "GET" -> h = "getAlbums"
                          [] r.method = "POST" -> h = "addAlbum"
                          [] OTHER -> refused(StatusMethodNotAllowed, ErrorMethodNotAllowed,
                                              "GET, POST")
                   ELSE IF IsIdPath(r.path)
                        THEN CASE r.method = "GET" ->
                                    h = "getAlbumByID" /\ local[w].id = PathId(r.path)
                               [] OTHER -> refused(StatusMethodNotAllowed,
                                                   ErrorMethodNotAllowed, "GET")
                        ELSE refused(StatusNotFound, ErrorNotFound, "")

\* GET /albums/a/b has been answered 404.
C6_Witness ==
    \E w \in Workers :
        /\ pc[w] = "done"
        /\ req[w].method = "GET"
        /\ req[w].path = AlbumPath(IdASlashB)
        /\ resp[w].status = StatusNotFound

\* The fields of an album that break their rule.
Violations(a) ==
    {f \in {"id", "title", "artist", "price"} :
        \/ f = "id" /\ a.ID = <<>>
        \/ f = "title" /\ a.Title = ""
        \/ f = "artist" /\ a.Artist = ""
        \/ f = "price" /\ ~(0 <= a.Price /\ a.Price < 100000)}

\* C7: a create request with id, title and artist non-empty and an id not
\* stored is answered 201 iff 0 <= price < 100000, and else 400 validation
\* with the issue out-of-range on field price.
C7_PriceRange ==
    \A w \in Workers :
        (pc[w] = "done" /\ IsAddRequest(req[w]) /\ req[w].body.kind = "json") =>
            LET a == UnmarshalAlbum(req[w].body.obj)
            IN  (a.ID # <<>> /\ a.Title # "" /\ a.Artist # "" /\ ~local[w].idStored) =>
                    /\ (resp[w].status = StatusCreated) <=> (0 <= a.Price /\ a.Price < 100000)
                    /\ resp[w].status = StatusCreated =>
                          /\ UnmarshalAlbum(resp[w].body) = a
                          /\ albums[a.ID] = a
                    /\ resp[w].status # StatusCreated =>
                          /\ resp[w].status = StatusBadRequest
                          /\ resp[w].body["status"] = StatusBadRequest
                          /\ resp[w].body["error"] = ErrorValidation
                          /\ DOMAIN resp[w].body["data"] = {"price"}
                          /\ resp[w].body["data"]["price"]["error"] = "out-of-range"

\* A create request with price 99999 has been answered 201.
C7_Witness ==
    \E w \in Workers :
        /\ pc[w] = "done"
        /\ IsAddRequest(req[w])
        /\ local[w].album.Price = 99999
        /\ resp[w].status = StatusCreated

\* C8: for a parseable create payload, the 400 validation response names
\* exactly the fields that break their rule, each with its issue, and then
\* the store is not called; with no such field there is no validation error.
C8_ValidationCollectsAll ==
    \A w \in Workers :
        (pc[w] = "done" /\ IsAddRequest(req[w]) /\ req[w].body.kind = "json") =>
            LET a == UnmarshalAlbum(req[w].body.obj)
                v == Violations(a)
            IN  IF v # {}
                THEN /\ resp[w].status = StatusBadRequest
                     /\ resp[w].body["status"] = StatusBadRequest
                     /\ resp[w].body["error"] = ErrorValidation
                     /\ DOMAIN resp[w].body["data"] = v
                     /\ \A f \in v :
                           resp[w].body["data"][f]["error"] =
                               IF f = "price" THEN "out-of-range" ELSE "required"
                     /\ local[w].err = ""
                ELSE /\ resp[w].status # StatusBadRequest
                     /\ local[w].err # ""

\* A create request with title and artist both empty has been answered
\* with both issues.
C8_Witness ==
    \E w \in Workers :
        /\ pc[w] = "done"
        /\ IsAddRequest(req[w])
        /\ resp[w].status = StatusBadRequest
        /\ DOMAIN resp[w].body = {"status", "error", "data"}
        /\ DOMAIN resp[w].body["data"] = {"title", "artist"}

====
